---- MODULE Spec2Model ----
(***************************************************************************)
(* A model of src/utils.py: DataProcessor.load_data and its helpers, and   *)
(* the two free converters gen_contingency_to_case_form and                *)
(* gen_case_form_to_contingency.                                           *)
(*                                                                         *)
(* Representation.                                                         *)
(*   - An ndarray is a record [shape, dtype, items]: shape is the tuple of *)
(*     axis lengths, items the function from the 0-based index tuples of   *)
(*     that shape to the cells.                                            *)
(*   - A numeric data cell (dtype "f") is held in HALF units: the integer  *)
(*     h stands for the number h/2, so that 3 is the float 1.5.  Python's  *)
(*     int() on it is truncation toward zero (Trunc).                      *)
(*   - A count table (dtype "i") holds plain integers.                     *)
(*   - A cell of a string or object array (dtype "U", "O") is a record     *)
(*     [tag, s, n]: a str s, or a number n (half units).                   *)
(*   - A call either returns an array or raises; Raise/Return build the    *)
(*     two outcomes.                                                       *)
(***************************************************************************)
EXTENDS Integers, Sequences, FiniteSets

VARIABLES entry, data, data_form, dimension, var_list, category_map,
          axis_order, origin, pc, result

vars == <<entry, data, data_form, dimension, var_list, category_map,
          axis_order, origin, pc, result>>

(***************************************************************************)
(* Bounds of the explored inputs.                                          *)
(***************************************************************************)
\* Rows of a case-form input of load_data.
MaxRows == 3
\* Rows of a frequency-form input, and the largest frequency.
MaxFreqRows == 2
MaxFreq == 2
\* Rows of an input with string labels.
MaxMapRows == 2
\* The largest count in a cell of a table given to the inverse converter.
MaxCount == 2
\* Rows of a 2-D input, and batches of a 3-D input, of
\* gen_case_form_to_contingency.
MaxCases == 2
MaxBatches == 2

(***************************************************************************)
(* Numbers and ndarrays.                                                   *)
(***************************************************************************)
\* A Python int n as a numeric data cell.
Num(n) == 2 * n

\* int(x) of a float held in half units: truncation toward zero.
Trunc(h) == IF h >= 0 THEN h \div 2 ELSE -((-h) \div 2)

RECURSIVE Cells(_)
\* The 0-based index tuples of an array of the given shape.
Cells(shape) ==
    IF Len(shape) = 0 THEN {<<>>}
    ELSE LET front == SubSeq(shape, 1, Len(shape) - 1)
             last  == shape[Len(shape)]
         IN  {Append(p, k) : p \in Cells(front), k \in 0..(last - 1)}

RECURSIVE CellSeq(_)
\* The index tuples of a shape in row-major (C) order, the order of
\* np.nonzero and of iteration.
CellSeq(shape) ==
    IF Len(shape) = 0 THEN <<<<>>>>
    ELSE LET rest == CellSeq(Tail(shape))
             Block[k \in 0..shape[1]] ==
                 IF k = 0 THEN <<>>
                 ELSE Block[k - 1] \o
                      [j \in 1..Len(rest) |-> <<k - 1>> \o rest[j]]
         IN  Block[shape[1]]

NdArray(shape, dtype, items) ==
    [shape |-> shape, dtype |-> dtype, items |-> items]

ndim(a) == Len(a.shape)

\* a[r] for a 0-based r along the first axis: the sub-array of one row
\* (or one batch).
Sub(a, r) ==
    LET sh == Tail(a.shape)
    IN  NdArray(sh, a.dtype, [c \in Cells(sh) |-> a.items[<<r>> \o c]])

\* The cells of a 1-D array as a sequence.
AsSeq(a) == [k \in 1..a.shape[1] |-> a.items[<<k - 1>>]]

\* np.array(rows) for a list of equally long lists; np.array([]) has
\* shape (0,).
FromRows(rows, dtype) ==
    IF Len(rows) = 0 THEN NdArray(<<0>>, dtype, <<>>)
    ELSE LET sh == <<Len(rows), Len(rows[1])>>
         IN  NdArray(sh, dtype, [c \in Cells(sh) |-> rows[c[1] + 1][c[2] + 1]])

\* A 2-D array of the given rows that keeps its column count when it has
\* no rows (shape (0, ncols)).
Array2(rows, ncols, dtype) ==
    LET sh == <<Len(rows), ncols>>
    IN  NdArray(sh, dtype, [c \in Cells(sh) |-> rows[c[1] + 1][c[2] + 1]])

\* A 3-D stack of batches of rows.
Array3(batches, nrows, ncols, dtype) ==
    LET sh == <<Len(batches), nrows, ncols>>
    IN  NdArray(sh, dtype,
                [c \in Cells(sh) |-> batches[c[1] + 1][c[2] + 1][c[3] + 1]])

\* np.zeros(shape, dtype=int)
Zeros(shape) == NdArray(shape, "i", [c \in Cells(shape) |-> 0])

NoArray == NdArray(<<>>, "none", <<>>)

(***************************************************************************)
(* Outcomes of a call.                                                     *)
(***************************************************************************)
Return(a) == [kind |-> "return", value |-> a, msg |-> "", bad |-> {}]

Raise(exc, msg) == [kind |-> exc, value |-> NoArray, msg |-> msg, bad |-> {}]

RaiseBad(exc, msg, bad) ==
    [kind |-> exc, value |-> NoArray, msg |-> msg, bad |-> bad]

Pending == [kind |-> "pending", value |-> NoArray, msg |-> "", bad |-> {}]

Returned(r) == r.kind = "return"

(***************************************************************************)
(* numpy integer indexing of an array by a full index tuple.               *)
(***************************************************************************)
\* An index k on an axis of length d is accepted when -d <= k < d.
IndexOk(idx, shape) ==
    /\ Len(idx) = Len(shape)
    /\ \A k \in 1..Len(idx) : -shape[k] <= idx[k] /\ idx[k] < shape[k]

\* A negative index counts from the end of its axis.
WrapIndex(idx, shape) ==
    [k \in 1..Len(idx) |-> IF idx[k] < 0 THEN idx[k] + shape[k] ELSE idx[k]]

\* A variant that marks the cell instead of counting: table[idx] = 1
IncrementOverwrites(table, idx) ==
    LET c == WrapIndex(idx, table.shape)
    IN  [table EXCEPT !.items[c] = 1]

\* table[idx] += 1
Increment(table, idx) ==
    LET c == WrapIndex(idx, table.shape)
    IN  [table EXCEPT !.items[c] = @ + 1]

\* A variant that accumulates: table[idx] += v
AssignAccumulates(table, idx, v) ==
    LET c == WrapIndex(idx, table.shape)
    IN  [table EXCEPT !.items[c] = @ + v]

\* table[idx] = v
Assign(table, idx, v) ==
    LET c == WrapIndex(idx, table.shape)
    IN  [table EXCEPT !.items[c] = v]

(***************************************************************************)
(* DataProcessor._process_case_form                                        *)
(***************************************************************************)
\* int(x) of a cell of an array of the given dtype.
PyInt(x, dtype) == IF dtype = "f" THEN Trunc(x) ELSE x

\* x - 1 on a cell of an array of the given dtype.
Minus1(x, dtype) == IF dtype = "f" THEN x - 2 ELSE x - 1

\* idx = tuple(int(i) for i in case), case a row of data - 1
CaseIndex(row, dtype) ==
    [k \in 1..Len(row) |-> PyInt(Minus1(row[k], dtype), dtype)]

RECURSIVE CaseLoop(_, _, _)
\* for case in data: table[idx] += 1, from row r on; the first index that
\* numpy rejects ends the call with IndexError.
CaseLoop(a, r, table) ==
    IF r >= a.shape[1] THEN Return(table)
    ELSE LET idx == CaseIndex(AsSeq(Sub(a, r)), a.dtype)
         IN  IF ~IndexOk(idx, table.shape)
             THEN Raise("IndexError", "index out of bounds")
             ELSE CaseLoop(a, r + 1, Increment(table, idx))

\* A variant whose loop takes the first row for a header and skips it.
ProcessCaseFormSkippingFirst(a, shape) ==
    IF ndim(a) # 2
    THEN Raise("ValueError", "Case form data must be 2D array")
    ELSE IF a.shape[2] # Len(shape)
    THEN Raise("ValueError", "Number of variables doesn't match shape")
    ELSE CaseLoop(a, 1, Zeros(shape))

_process_case_form(a, shape) ==
    IF ndim(a) # 2
    THEN Raise("ValueError", "Case form data must be 2D array")
    ELSE IF a.shape[2] # Len(shape)
    THEN Raise("ValueError", "Number of variables doesn't match shape")
    ELSE CaseLoop(a, 0, Zeros(shape))

(***************************************************************************)
(* DataProcessor._process_frequency_form                                   *)
(***************************************************************************)
RECURSIVE FreqLoop(_, _, _)
\* for case, freq in zip(cases, freqs): table[idx] = int(freq), from row
\* r on, with cases = data[:, :-1] - 1 and freqs = data[:, -1].
FreqLoop(a, r, table) ==
    IF r >= a.shape[1] THEN Return(table)
    ELSE LET row  == AsSeq(Sub(a, r))
             idx  == CaseIndex(SubSeq(row, 1, Len(row) - 1), a.dtype)
             freq == row[Len(row)]
         IN  IF ~IndexOk(idx, table.shape)
             THEN Raise("IndexError", "index out of bounds")
             ELSE FreqLoop(a, r + 1, Assign(table, idx, PyInt(freq, a.dtype)))

_process_frequency_form(a, shape) ==
    IF ndim(a) # 2
    THEN Raise("ValueError", "Frequency form data must be 2D array")
    ELSE IF a.shape[2] # Len(shape) + 1
    THEN Raise("ValueError", "Frequency form should have n+1 columns")
    ELSE FreqLoop(a, 0, Zeros(shape))

(***************************************************************************)
(* DataProcessor._process_table_form                                       *)
(***************************************************************************)
\* data.astype(int): a float cell is truncated, an int cell kept.
AsTypeInt(a) ==
    NdArray(a.shape, "i",
            [c \in DOMAIN a.items |->
                PyInt(a.items[c], a.dtype)])

RECURSIVE Product(_)
Product(shape) == IF Len(shape) = 0 THEN 1 ELSE shape[1] * Product(Tail(shape))

\* A variant that compares the numbers of elements, not the shapes.
ProcessTableFormBySize(a, shape) ==
    IF Product(a.shape) # Product(shape)
    THEN Raise("ValueError", "Table shape doesn't match specified shape")
    ELSE Return(AsTypeInt(a))

_process_table_form(a, shape) ==
    IF a.shape # shape
    THEN Raise("ValueError", "Table shape doesn't match specified shape")
    ELSE Return(AsTypeInt(a))

(***************************************************************************)
(* DataProcessor._apply_category_mapping                                   *)
(***************************************************************************)
StrCell(s) == [tag |-> "str", s |-> s, n |-> 0]

NumCell(h) == [tag |-> "num", s |-> "", n |-> h]

\* str.strip() on the labels of the model.
Strip(s) ==
    CASE s = " a " -> "a"
      [] s = " b"  -> "b"
      [] s = "zz " -> "zz"
      [] s = " 2"  -> "2"
      [] OTHER     -> s

\* Whether float(s) succeeds (surrounding whitespace is accepted).
IsNumeric(s) == Strip(s) \in {"0", "1", "2", "3", "1.5"}

\* float(s), in half units.
FloatOf(s) ==
    CASE Strip(s) = "0"   -> 0
      [] Strip(s) = "1"   -> 2
      [] Strip(s) = "2"   -> 4
      [] Strip(s) = "3"   -> 6
      [] Strip(s) = "1.5" -> 3

\* str(i) of a small int: a column's positional name, and the text an int
\* becomes when it is stored into a string array.
Str(i) ==
    CASE i = 0 -> "0"
      [] i = 1 -> "1"
      [] i = 2 -> "2"
      [] i = 3 -> "3"

\* A variant whose lookup falls back to 0: var_map.get(value, 0)
MapCategoryDefaultZero(cell, var_map, dtype) ==
    IF cell.tag = "str"
    THEN LET value == Strip(cell.s)
             code  == IF value \in DOMAIN var_map THEN var_map[value] ELSE 0
         IN  IF dtype = "U" THEN StrCell(Str(code)) ELSE NumCell(Num(code))
    ELSE cell

\* _map_category(value, var_map), stored back into an array of the given
\* dtype: a str is stripped and looked up, anything else passes through.
_map_category(cell, var_map, dtype) ==
    IF cell.tag = "str"
    THEN LET value == Strip(cell.s)
         IN  IF value \in DOMAIN var_map
             THEN IF dtype = "U" THEN StrCell(Str(var_map[value]))
                                 ELSE NumCell(Num(var_map[value]))
             ELSE StrCell(value)
    ELSE cell

\* The name of column i: var_list[i] if var_list else str(i).
VarName(vl, i) == IF Len(vl) > 0 THEN vl[i + 1] ELSE Str(i)

\* The columns i in range(n_vars) whose name is a key of the map.
MappedColumns(a, cmap, vl) ==
    LET n_cols == a.shape[2]
        n_vars == IF Len(vl) > 0 THEN Len(vl) ELSE n_cols
    IN  {i \in 0..(n_vars - 1) : VarName(vl, i) \in DOMAIN cmap}

\* result[:, i] = [_map_category(x, category_map[var]) for x in data[:, i]]
\* for every mapped column.
MapColumns(a, cmap, vl) ==
    LET cols == MappedColumns(a, cmap, vl)
    IN  [a EXCEPT !.items =
            [c \in DOMAIN a.items |->
                IF c[2] \in cols
                THEN _map_category(a.items[c], cmap[VarName(vl, c[2])], a.dtype)
                ELSE a.items[c]]]

\* Whether a cell converts to float.
Converts(cell) == cell.tag = "num" \/ IsNumeric(cell.s)

\* The values the failure reports: the cells that are not an int or a
\* float.  Every cell of a string array is a str.
BadValues(a) ==
    {a.items[c].s : c \in {d \in DOMAIN a.items : a.items[d].tag = "str"}}

\* result.astype(float), and the failure raised when it cannot be done.
AsTypeFloat(a) ==
    IF \A c \in DOMAIN a.items : Converts(a.items[c])
    THEN Return(NdArray(a.shape, "f",
                 [c \in DOMAIN a.items |->
                     IF a.items[c].tag = "num" THEN a.items[c].n
                     ELSE FloatOf(a.items[c].s)]))
    ELSE RaiseBad("ValueError", "Could not convert categories to numeric",
                  BadValues(a))

_apply_category_mapping(a, cmap, vl, form) ==
    IF a.dtype \in {"i", "f", "u"} THEN Return(a)
    ELSE IF form \in {"case_form", "frequency_form"}
    THEN IF \E i \in MappedColumns(a, cmap, vl) : i >= a.shape[2]
         THEN Raise("IndexError", "index out of bounds for axis 1")
         ELSE AsTypeFloat(MapColumns(a, cmap, vl))
    ELSE AsTypeFloat(a)

(***************************************************************************)
(* DataProcessor.load_data, for data given as an in-memory ndarray.        *)
(***************************************************************************)
\* category_map=None
NoMap == [isNone |-> TRUE, map |-> <<>>]

SomeMap(m) == [isNone |-> FALSE, map |-> m]

\* The dispatch on data_form.
Process(a, form, shape) ==
    IF form = "case_form" THEN _process_case_form(a, shape)
    ELSE IF form = "frequency_form" THEN _process_frequency_form(a, shape)
    ELSE _process_table_form(a, shape)

load_data(a, form, shape, vl, cmap) ==
    IF form \notin {"case_form", "frequency_form", "table_form"}
    THEN Raise("ValueError",
               "data_form must be case_form, frequency_form, or table_form")
    ELSE IF cmap.isNone THEN Process(a, form, shape)
    ELSE LET mapped == _apply_category_mapping(a, cmap.map, vl, form)
         IN  IF Returned(mapped) THEN Process(mapped.value, form, shape)
             ELSE mapped

(***************************************************************************)
(* gen_contingency_to_case_form                                            *)
(***************************************************************************)
\* A variant that lists each non-zero cell once, whatever its count.
RepeatOnce(x, n) == <<x>>

\* [x] * n: n copies of x, none when n <= 0.
Repeat(x, n) == [k \in 1..n |-> x]

RECURSIVE Expand(_, _, _)
\* for idx, count in zip(zip(*indices), counts):
\*     cases.extend([list(idx)] * int(count))
\* over the non-zero cells in row-major order, from the k-th cell on.
Expand(t, order, k) ==
    IF k > Len(order) THEN <<>>
    ELSE LET idx   == order[k]
             count == t.items[idx]
         IN  IF count = 0 THEN Expand(t, order, k + 1)
             ELSE Repeat(idx, PyInt(count, t.dtype)) \o Expand(t, order, k + 1)

gen_contingency_to_case_form(t) ==
    Return(FromRows(Expand(t, CellSeq(t.shape), 1), "i"))

(***************************************************************************)
(* gen_case_form_to_contingency                                            *)
(***************************************************************************)
\* axis_order=None
NoOrder == [isNone |-> TRUE, order |-> <<>>]

SomeOrder(o) == [isNone |-> FALSE, order |-> o]

\* list(range(n))
Range(n) == [k \in 1..n |-> k - 1]

RECURSIVE FullIndexFrom(_, _, _, _, _)
\* The loop of _get_full_index from position i (0-based) on:
\*     idx[axis] = int(case[i])
\* A column the case does not have, or an axis the list does not have,
\* raises IndexError (ok is FALSE); a negative axis counts from the end
\* of the list.
FullIndexFrom(case, dtype, order, i, idx) ==
    IF i >= Len(order) THEN [ok |-> TRUE, idx |-> idx]
    ELSE LET axis == order[i + 1]
             n    == Len(idx)
         IN  IF i >= Len(case) \/ axis >= n \/ axis < -n
             THEN [ok |-> FALSE, idx |-> idx]
             ELSE LET at == IF axis < 0 THEN axis + n ELSE axis
                  IN  FullIndexFrom(case, dtype, order, i + 1,
                          [idx EXCEPT ![at + 1] = PyInt(case[i + 1], dtype)])

\* A variant that ignores the order: idx[i] = int(case[i])
GetFullIndexIgnoringOrder(case, dtype, order, n_axes) ==
    FullIndexFrom(case, dtype, Range(Len(order)), 0, [k \in 1..n_axes |-> 0])

\* _get_full_index(case, axis_order), idx starting as [0] * n_axes.
_get_full_index(case, dtype, order, n_axes) ==
    FullIndexFrom(case, dtype, order, 0, [k \in 1..n_axes |-> 0])

RECURSIVE BatchRows(_, _)
\* The rows of a 3-D stack in the order the nested loops visit them:
\* batch axis outer, row axis inner, from batch b on.
BatchRows(a, b) ==
    IF b >= a.shape[1] THEN <<>>
    ELSE LET batch == Sub(a, b)
         IN  [r \in 1..batch.shape[1] |-> AsSeq(Sub(batch, r - 1))]
             \o BatchRows(a, b + 1)

\* The cases the loops visit.  Iterating a 1-D array yields scalars, which
\* have no columns.
VisitedCases(a) ==
    IF ndim(a) = 3 THEN BatchRows(a, 0)
    ELSE IF ndim(a) = 2 THEN [r \in 1..a.shape[1] |-> AsSeq(Sub(a, r - 1))]
    ELSE [r \in 1..a.shape[1] |-> <<>>]

RECURSIVE CountCases(_, _, _, _, _)
\* idx = _get_full_index(case, axis_order); table[idx] += 1, from the
\* k-th visited case on.
CountCases(rows, dtype, order, k, table) ==
    IF k > Len(rows) THEN Return(table)
    ELSE LET full == _get_full_index(rows[k], dtype, order, ndim(table))
         IN  IF ~full.ok
             THEN Raise("IndexError", "index out of range")
             ELSE IF ~IndexOk(full.idx, table.shape)
             THEN Raise("IndexError", "index out of bounds")
             ELSE CountCases(rows, dtype, order, k + 1,
                             Increment(table, full.idx))

\* axis_order = list(range(cases.shape[1])) when it is None: shape[1] is
\* the second axis length whatever the layout, and a 1-D array has none.
DefaultOrder(a) == Range(a.shape[2])

gen_case_form_to_contingency(a, shape, ao) ==
    IF ao.isNone /\ ndim(a) < 2
    THEN Raise("IndexError", "tuple index out of range")
    ELSE LET order == IF ao.isNone THEN DefaultOrder(a) ELSE ao.order
         IN  CountCases(VisitedCases(a), a.dtype, order, 1, Zeros(shape))

(***************************************************************************)
(* The inputs explored.                                                    *)
(***************************************************************************)
\* The sequences over S of length at most n.
SeqsUpTo(S, n) == UNION {[1..k -> S] : k \in 0..n}

\* Rows of 1-based category values, every one inside its variable's range.
ValidRows(shape) ==
    {[k \in 1..Len(shape) |-> Num(c[k] + 1)] : c \in Cells(shape)}

\* Raw values outside 1..d: 0 and 0.5, d + 1, and -d.
OutsideValues(d) == {Num(0), 1, Num(d + 1), Num(-d)}

\* Rows with exactly one value outside its variable's range, outside[k]
\* being the values tried in column k.
RowsWithOneOutside(shape, outside) ==
    UNION {{[r EXCEPT ![k] = b] : b \in outside[k]} :
              r \in ValidRows(shape), k \in 1..Len(shape)}

\* Case form: numeric rows, one column per variable.
CaseShapes == {<<3>>, <<2, 2>>}

CaseRows(shape) ==
    ValidRows(shape)
        \cup RowsWithOneOutside(shape,
                 [k \in 1..Len(shape) |-> OutsideValues(shape[k])])

\* Frequency form: the case columns, then a frequency (1.5 among them).
FreqShapes == {<<3>>, <<1, 2>>}

FreqOutside(d) == {Num(0), Num(d + 1)}

FreqValues == {Num(f) : f \in 0..MaxFreq} \cup {3}

FreqRows(shape) ==
    {Append(r, f) :
        r \in ValidRows(shape)
                 \cup RowsWithOneOutside(shape,
                          [k \in 1..Len(shape) |-> FreqOutside(shape[k])]),
        f \in FreqValues}

\* Table form: an N-d array of 0 and 1.5 against a declared dimension.
TableShapes == {<<2, 3>>, <<3, 2>>, <<6>>, <<2, 2>>}

\* Inputs that a validation rejects: an unknown data_form, a 3-D array,
\* a wrong column count.
RejectedInputs ==
    {[data |-> Array2(<<<<2, 2>>>>, 2, "f"), data_form |-> "count_form",
      dimension |-> <<2, 2>>],
     [data |-> Array3(<<<<<<2, 2>>>>>>, 1, 2, "f"), data_form |-> "case_form",
      dimension |-> <<2, 2>>],
     [data |-> Array3(<<<<<<2, 2>>>>>>, 1, 2, "f"), data_form |-> "frequency_form",
      dimension |-> <<2>>],
     [data |-> Array2(<<<<2, 2>>>>, 2, "f"), data_form |-> "case_form",
      dimension |-> <<3>>],
     [data |-> Array2(<<<<2, 2>>>>, 2, "f"), data_form |-> "frequency_form",
      dimension |-> <<2, 2>>]}

\* Labelled data with a category_map.  The labels of variable x (or of
\* column "0") are a and b; the second column is not mapped.
Labels == [a |-> 1, b |-> 2]

MapConfigs ==
    {[form |-> "case_form", dimension |-> <<2, 2>>, var_list |-> <<"x", "y">>,
      map |-> [v \in {"x"} |-> Labels]],
     [form |-> "frequency_form", dimension |-> <<2>>, var_list |-> <<>>,
      map |-> [v \in {"0"} |-> Labels]],
     [form |-> "frequency_form", dimension |-> <<2>>, var_list |-> <<"x">>,
      map |-> [v \in {"x", "w"} |-> Labels]],
     [form |-> "case_form", dimension |-> <<2, 2>>,
      var_list |-> <<"x", "y", "w">>, map |-> [v \in {"x", "w"} |-> Labels]]}

MappedColumnCells(dtype) ==
    {StrCell(s) : s \in {"a", " b", "zz ", "2"}}
        \cup (IF dtype = "O" THEN {NumCell(Num(1))} ELSE {})

OtherColumnCells(dtype) ==
    {StrCell(s) : s \in {"1", "zz"}}
        \cup (IF dtype = "O" THEN {NumCell(Num(2))} ELSE {})

LabelRows(dtype) ==
    IF dtype = "f" THEN {<<Num(1), Num(2)>>, <<Num(2), Num(1)>>}
    ELSE {<<m, o>> : m \in MappedColumnCells(dtype), o \in OtherColumnCells(dtype)}

\* Count tables given to gen_contingency_to_case_form.
CountShapes == {<<3>>, <<2, 2>>, <<2, 1, 2>>}

\* Cases given to gen_case_form_to_contingency: the table's shape, the
\* number of columns and the axis_order; a column's values are 0-based
\* indices of the axis it feeds, or -1 or the axis length.
AxisConfigs ==
    {[shape |-> <<2, 3>>,    ncols |-> 2, ao |-> NoOrder],
     [shape |-> <<3, 2>>,    ncols |-> 2, ao |-> NoOrder],
     [shape |-> <<2, 3>>,    ncols |-> 2, ao |-> SomeOrder(<<1, 0>>)],
     [shape |-> <<3, 2>>,    ncols |-> 2, ao |-> SomeOrder(<<1, 0>>)],
     [shape |-> <<2, 2, 2>>, ncols |-> 2, ao |-> SomeOrder(<<2, 0>>)],
     [shape |-> <<2, 3>>,    ncols |-> 1, ao |-> SomeOrder(<<1>>)],
     [shape |-> <<2, 3>>,    ncols |-> 1, ao |-> NoOrder],
     [shape |-> <<2, 3>>,    ncols |-> 2, ao |-> SomeOrder(<<1>>)],
     [shape |-> <<2, 3>>,    ncols |-> 2, ao |-> SomeOrder(<<0, 0>>)],
     [shape |-> <<2, 3>>,    ncols |-> 1, ao |-> SomeOrder(<<2>>)],
     [shape |-> <<2, 3>>,    ncols |-> 1, ao |-> SomeOrder(<<0, 1>>)],
     [shape |-> <<2, 3>>,    ncols |-> 2, ao |-> SomeOrder(<<-1, 0>>)]}

\* The axis column i (1-based) feeds: its position when no order is given
\* or the order does not reach it.
FedAxis(cfg, i) ==
    IF cfg.ao.isNone \/ i > Len(cfg.ao.order) THEN i - 1
    ELSE LET axis == cfg.ao.order[i]
         IN  IF axis < 0 THEN axis + Len(cfg.shape) ELSE axis

\* The length of that axis (2 when the table has no such axis).
FedLength(cfg, i) ==
    IF FedAxis(cfg, i) < Len(cfg.shape) THEN cfg.shape[FedAxis(cfg, i) + 1]
    ELSE 2

InRangeCases(cfg) ==
    {r \in [1..cfg.ncols -> 0..2] :
        \A i \in 1..cfg.ncols : r[i] < FedLength(cfg, i)}

CasesWithOneOutside(cfg) ==
    UNION {{[r EXCEPT ![i] = b] : b \in {-1, FedLength(cfg, i)}} :
              r \in InRangeCases(cfg), i \in 1..cfg.ncols}

\* 3-D stacks: batches of nrows rows of ncols columns.
BatchConfigs ==
    {[shape |-> <<2, 2>>, nrows |-> n, ncols |-> 2, ao |-> ao] :
        n \in 1..2, ao \in {NoOrder, SomeOrder(<<0, 1>>), SomeOrder(<<1, 0>>)}}
    \cup
    {[shape |-> <<2>>, nrows |-> n, ncols |-> 1, ao |-> ao] :
        n \in 1..2, ao \in {NoOrder, SomeOrder(<<0>>)}}

(***************************************************************************)
(* The state machine: one call of a public entry point on one input, and   *)
(* the round trip that feeds the cases of a table back.                    *)
(***************************************************************************)
\* The arguments a call of load_data leaves at their defaults.
Plain == var_list = <<>> /\ category_map = NoMap

InitCaseForm ==
    /\ data_form = "case_form"
    /\ \E shape \in CaseShapes : \E n \in 0..MaxRows :
         \E rows \in [1..n -> CaseRows(shape)] :
            /\ data = Array2(rows, Len(shape), "f")
            /\ dimension = shape
    /\ Plain

InitFrequencyForm ==
    /\ data_form = "frequency_form"
    /\ \E shape \in FreqShapes : \E n \in 0..MaxFreqRows :
         \E rows \in [1..n -> FreqRows(shape)] :
            /\ data = Array2(rows, Len(shape) + 1, "f")
            /\ dimension = shape
    /\ Plain

InitTableForm ==
    /\ data_form = "table_form"
    /\ \E shape \in TableShapes : \E items \in [Cells(shape) -> {0, 3}] :
            data = NdArray(shape, "f", items)
    /\ dimension \in TableShapes
    /\ Plain

InitRejected ==
    /\ \E inp \in RejectedInputs :
            /\ data = inp.data
            /\ data_form = inp.data_form
            /\ dimension = inp.dimension
    /\ Plain

InitMapped ==
    \E cfg \in MapConfigs : \E dtype \in {"U", "O", "f"} :
      \E n \in 0..MaxMapRows : \E rows \in [1..n -> LabelRows(dtype)] :
        /\ data = Array2(rows, 2, dtype)
        /\ data_form = cfg.form
        /\ dimension = cfg.dimension
        /\ var_list = cfg.var_list
        /\ category_map = SomeMap(cfg.map)

InitLoad ==
    /\ entry = "load_data"
    /\ axis_order = NoOrder
    /\ \/ InitCaseForm
       \/ InitFrequencyForm
       \/ InitTableForm
       \/ InitRejected
       \/ InitMapped

InitToCases ==
    /\ entry = "gen_contingency_to_case_form"
    /\ \E shape \in CountShapes : \E items \in [Cells(shape) -> 0..MaxCount] :
            data = NdArray(shape, "i", items)
    /\ dimension = <<>>
    /\ axis_order = NoOrder
    /\ data_form = ""
    /\ Plain

InitFlat ==
    \E cfg \in AxisConfigs : \E n \in 0..MaxCases :
      \E rows \in [1..n -> InRangeCases(cfg) \cup CasesWithOneOutside(cfg)] :
        /\ data = Array2(rows, cfg.ncols, "i")
        /\ dimension = cfg.shape
        /\ axis_order = cfg.ao

InitBatched ==
    \E cfg \in BatchConfigs : \E n \in 0..MaxBatches :
      \E batches \in [1..n -> [1..cfg.nrows -> InRangeCases(cfg)]] :
        /\ data = Array3(batches, cfg.nrows, cfg.ncols, "i")
        /\ dimension = cfg.shape
        /\ axis_order = cfg.ao

InitToTable ==
    /\ entry = "gen_case_form_to_contingency"
    /\ InitFlat \/ InitBatched
    /\ data_form = ""
    /\ Plain

Init ==
    /\ pc = "call"
    /\ result = Pending
    /\ origin = NoArray
    /\ InitLoad \/ InitToCases \/ InitToTable

Call_load_data ==
    /\ pc = "call"
    /\ entry = "load_data"
    /\ result' = load_data(data, data_form, dimension, var_list, category_map)
    /\ pc' = "done"
    /\ UNCHANGED <<entry, data, data_form, dimension, var_list, category_map,
                   axis_order, origin>>

Call_gen_contingency_to_case_form ==
    /\ pc = "call"
    /\ entry = "gen_contingency_to_case_form"
    /\ result' = gen_contingency_to_case_form(data)
    /\ pc' = "done"
    /\ UNCHANGED <<entry, data, data_form, dimension, var_list, category_map,
                   axis_order, origin>>

Call_gen_case_form_to_contingency ==
    /\ pc = "call"
    /\ entry = "gen_case_form_to_contingency"
    /\ result' = gen_case_form_to_contingency(data, dimension, axis_order)
    /\ pc' = "done"
    /\ UNCHANGED <<entry, data, data_form, dimension, var_list, category_map,
                   axis_order, origin>>

\* gen_case_form_to_contingency(gen_contingency_to_case_form(T),
\* shape=T.shape): the cases just produced are given back with the
\* table's shape and no axis_order; origin remembers T.
RoundTrip ==
    /\ pc = "done"
    /\ entry = "gen_contingency_to_case_form"
    /\ Returned(result)
    /\ entry' = "gen_case_form_to_contingency"
    /\ origin' = data
    /\ data' = result.value
    /\ dimension' = data.shape
    /\ axis_order' = NoOrder
    /\ result' = Pending
    /\ pc' = "call"
    /\ UNCHANGED <<data_form, var_list, category_map>>

Next ==
    \/ Call_load_data
    \/ Call_gen_contingency_to_case_form
    \/ Call_gen_case_form_to_contingency
    \/ RoundTrip

Spec == Init /\ [][Next]_vars

(***************************************************************************)
(* Properties.                                                             *)
(***************************************************************************)
Done(name) == pc = "done" /\ entry = name

\* Row r (1-based) of a 2-D array, as a sequence of cells.
RowOf(a, r) == AsSeq(Sub(a, r - 1))

RECURSIVE SumFrom(_, _, _)
SumFrom(t, order, k) ==
    IF k > Len(order) THEN 0 ELSE t.items[order[k]] + SumFrom(t, order, k + 1)

\* The sum of all cells of a table.
Total(t) == SumFrom(t, CellSeq(t.shape), 1)

\* load_data was called on numeric case-form data.
CaseFormCall ==
    /\ Done("load_data")
    /\ data_form = "case_form"
    /\ category_map.isNone
    /\ data.dtype = "f"

\* The data is 2-D with one column per declared dimension.
CaseFormShaped == ndim(data) = 2 /\ data.shape[2] = Len(dimension)

\* Cell (r, k) holds an integer of 1..dimension_k.
InCategoryRange(r, k) ==
    \E v \in 1..dimension[k] : data.items[<<r - 1, k - 1>>] = Num(v)

ValidCaseForm ==
    /\ CaseFormShaped
    /\ \A r \in 1..data.shape[1] : \A k \in 1..Len(dimension) :
          InCategoryRange(r, k)

\* The rows whose (value - 1) index tuple is the cell c.
RowsAddressing(c) ==
    {r \in 1..data.shape[1] :
        \A k \in 1..Len(dimension) : data.items[<<r - 1, k - 1>>] = Num(c[k] + 1)}

\* C2: a case-form row with a raw value outside 1..dimension_i (raw 0
\* among them) makes load_data raise an out-of-range failure; the row is
\* never counted, in the last category or anywhere else.
C2_OutOfRangeRaises ==
    (/\ CaseFormCall
     /\ CaseFormShaped
     /\ \E r \in 1..data.shape[1] : \E k \in 1..Len(dimension) :
           ~InCategoryRange(r, k))
    => result.kind = "IndexError"

\* C3: for a valid case-form input the table returned has in each cell
\* the number of rows that address it, and its total is the number of
\* rows.
C3_CellsCountRows ==
    (CaseFormCall /\ ValidCaseForm)
    => /\ Returned(result)
       /\ result.value.shape = dimension
       /\ \A c \in Cells(dimension) :
             result.value.items[c] = Cardinality(RowsAddressing(c))
       /\ Total(result.value) = data.shape[1]

\* A valid input of three rows, two of them in the same cell, was counted.
C3_Witness ==
    /\ CaseFormCall
    /\ ValidCaseForm
    /\ data.shape[1] = 3
    /\ \E c \in Cells(dimension) : Cardinality(RowsAddressing(c)) = 2

\* The bijections of 1..n.
RowOrders(n) ==
    {p \in [1..n -> 1..n] : \A i, j \in 1..n : p[i] = p[j] => i = j}

\* The 2-D array a with its rows in the order p.
Permuted(a, p) ==
    [a EXCEPT !.items = [c \in DOMAIN a.items |-> a.items[<<p[c[1] + 1] - 1, c[2]>>]]]

\* C10: load_data returns the same table for every permutation of the
\* rows of a valid case-form array.
C10_RowOrderIrrelevant ==
    (CaseFormCall /\ ValidCaseForm)
    => \A p \in RowOrders(data.shape[1]) :
          load_data(Permuted(data, p), data_form, dimension, var_list,
                    category_map) = result

\* A valid input whose three rows are in three different cells was counted.
C10_Witness ==
    /\ CaseFormCall
    /\ ValidCaseForm
    /\ data.shape[1] = 3
    /\ \A i, j \in 1..3 : i # j => RowOf(data, i) # RowOf(data, j)
    /\ Returned(result)

\* load_data was called on numeric frequency-form data.
FreqFormCall ==
    /\ Done("load_data")
    /\ data_form = "frequency_form"
    /\ category_map.isNone
    /\ data.dtype = "f"

\* 2-D data of n + 1 columns whose case columns are in range.
ValidFreqForm ==
    /\ ndim(data) = 2
    /\ data.shape[2] = Len(dimension) + 1
    /\ \A r \in 1..data.shape[1] : \A k \in 1..Len(dimension) :
          InCategoryRange(r, k)

\* The frequency of row r, truncated to an integer.
FrequencyOf(r) == Trunc(data.items[<<r - 1, Len(dimension)>>])

\* The last row of a non-empty set of rows.
LastOf(rows) == CHOOSE r \in rows : \A q \in rows : q <= r

\* C4: in frequency form every row assigns its frequency to the cell it
\* addresses: a cell several rows address holds the frequency of the last
\* of them, not their sum, and a cell no row addresses holds 0.
C4_LastFrequencyWins ==
    (FreqFormCall /\ ValidFreqForm)
    => /\ Returned(result)
       /\ \A c \in Cells(dimension) :
             result.value.items[c] =
                IF RowsAddressing(c) = {} THEN 0
                ELSE FrequencyOf(LastOf(RowsAddressing(c)))

\* Two rows addressed one cell with frequencies 2 and then 1, and the
\* table was returned.
C4_Witness ==
    /\ FreqFormCall
    /\ ValidFreqForm
    /\ \E c \in Cells(dimension) :
          /\ RowsAddressing(c) = {1, 2}
          /\ FrequencyOf(1) = 2
          /\ FrequencyOf(2) = 1
    /\ Returned(result)

\* load_data was called on table-form data.
TableFormCall ==
    /\ Done("load_data")
    /\ data_form = "table_form"
    /\ category_map.isNone

\* C7: in table form an input whose shape differs from the declared
\* dimension raises the shape-mismatch failure, also when the numbers of
\* elements agree; an input of the declared shape never raises it.
C7_ShapeMustMatch ==
    TableFormCall
    => IF data.shape = dimension
       THEN Returned(result)
       ELSE /\ result.kind = "ValueError"
            /\ result.msg = "Table shape doesn't match specified shape"

\* A (2,3) input against dimension (3,2) was rejected.
C7_Witness ==
    /\ TableFormCall
    /\ data.shape = <<2, 3>>
    /\ dimension = <<3, 2>>
    /\ result.kind = "ValueError"

\* load_data was called with a category_map on case-form or
\* frequency-form data that holds strings, the var_list naming no more
\* variables than the data has columns.
MappedCall ==
    /\ Done("load_data")
    /\ ~category_map.isNone
    /\ data_form \in {"case_form", "frequency_form"}
    /\ data.dtype \in {"U", "O"}
    /\ Len(var_list) <= data.shape[2]

\* The cell at c is a string in a mapped variable's column whose trimmed
\* label is not in that variable's map and is not a number.
UnknownLabelAt(c) ==
    /\ c[2] < (IF Len(var_list) > 0 THEN Len(var_list) ELSE data.shape[2])
    /\ VarName(var_list, c[2]) \in DOMAIN category_map.map
    /\ data.items[c].tag = "str"
    /\ Strip(data.items[c].s)
          \notin DOMAIN category_map.map[VarName(var_list, c[2])]
    /\ Strip(data.items[c].s) \notin {"0", "1", "2", "3", "1.5"}

\* C6: a string in a mapped variable's column whose trimmed label is
\* neither in the variable's map nor a number makes load_data raise the
\* numeric-conversion ValueError, whose reported values include that
\* label; no table is returned.
C6_UnknownLabelRaises ==
    MappedCall
    => \A c \in DOMAIN data.items :
          UnknownLabelAt(c)
          => /\ result.kind = "ValueError"
             /\ result.msg = "Could not convert categories to numeric"
             /\ Strip(data.items[c].s) \in result.bad

\* The label "zz " stood in the mapped column of a string array next to
\* a known label, and the call raised.
C6_Witness ==
    /\ MappedCall
    /\ data.dtype = "U"
    /\ data.shape[1] = 2
    /\ data.items[<<0, 0>>].s = " b"
    /\ data.items[<<1, 0>>].s = "zz "
    /\ UnknownLabelAt(<<1, 0>>)
    /\ "zz" \in result.bad

\* gen_contingency_to_case_form was called on a table (data) and is done.
ToCasesCall == Done("gen_contingency_to_case_form")

\* The rows of the array the call returned; np.array([]) has none.
OutputRows ==
    IF ndim(result.value) = 2
    THEN [r \in 1..result.value.shape[1] |-> RowOf(result.value, r)]
    ELSE <<>>

\* C8: gen_contingency_to_case_form emits, for each cell, as many rows
\* equal to the cell's 0-based index tuple as the cell's count, none for
\* a count of 0, and so as many rows as the sum of all counts.
C8_RowsPerCount ==
    ToCasesCall
    => /\ Returned(result)
       /\ \A c \in Cells(data.shape) :
             Cardinality({r \in 1..Len(OutputRows) : OutputRows[r] = c})
                = data.items[c]
       /\ \A r \in 1..Len(OutputRows) : OutputRows[r] \in Cells(data.shape)
       /\ result.value.shape[1] = Total(data)

\* A table with a cell of count 2 and a cell of count 0 was expanded.
C8_Witness ==
    /\ ToCasesCall
    /\ \E c, z \in Cells(data.shape) : data.items[c] = 2 /\ data.items[z] = 0
    /\ Len(OutputRows) >= 2

\* C1: the cases of a table T, given back with shape=T.shape and no
\* axis_order, yield T again, for every table of non-negative counts, the
\* all-zero table included.
C1_RoundTrip ==
    (Done("gen_case_form_to_contingency") /\ origin.dtype # "none")
    => /\ Returned(result)
       /\ result.value = origin

\* gen_case_form_to_contingency was called directly (not by the round
\* trip) and is done.
ToTableCall == Done("gen_case_form_to_contingency") /\ origin.dtype = "none"

\* All rows of all batches of a 3-D stack, concatenated into a 2-D array.
Concatenated(a) == Array2(BatchRows(a, 0), a.shape[3], a.dtype)

\* C5: a 3-D stack of batches gives the table of the 2-D array of all its
\* rows, whatever the numbers of batches, rows and columns, with and
\* without an axis_order.
C5_BatchesAsConcatenation ==
    (ToTableCall /\ ndim(data) = 3)
    => result = gen_case_form_to_contingency(Concatenated(data), dimension,
                                             axis_order)

\* 2-D cases with an axis_order that maps every column to an axis of its
\* own, every value a 0-based index of the axis it feeds.
DistinctAxesCall ==
    /\ ToTableCall
    /\ ndim(data) = 2
    /\ ~axis_order.isNone
    /\ Len(axis_order.order) = data.shape[2]
    /\ \A i \in 1..Len(axis_order.order) :
          /\ axis_order.order[i] \in 0..(Len(dimension) - 1)
          /\ \A j \in 1..Len(axis_order.order) :
                axis_order.order[i] = axis_order.order[j] => i = j
          /\ \A r \in 1..data.shape[1] :
                data.items[<<r - 1, i - 1>>]
                    \in 0..(dimension[axis_order.order[i] + 1] - 1)

\* Row r addresses cell c: on the axis axis_order[i] the coordinate is the
\* row's column-i value, on every other axis it is 0.
Feeds(r, c) ==
    \A k \in 1..Len(dimension) :
       IF \E i \in 1..Len(axis_order.order) : axis_order.order[i] = k - 1
       THEN \A i \in 1..Len(axis_order.order) :
               axis_order.order[i] = k - 1 => c[k] = data.items[<<r - 1, i - 1>>]
       ELSE c[k] = 0

\* C9: with an axis_order of distinct axes every row adds 1 to the cell
\* it addresses through the order (0 on the axes no column feeds); and
\* with axis_order=[1,0] on 2-column data the table is the transpose of
\* the one built without axis_order on the shape with its axes swapped.
C9_AxisOrderRoutesColumns ==
    DistinctAxesCall
    => /\ Returned(result)
       /\ \A c \in Cells(dimension) :
             result.value.items[c]
                = Cardinality({r \in 1..data.shape[1] : Feeds(r, c)})
       /\ (axis_order.order = <<1, 0>> /\ Len(dimension) = 2)
          => LET plain == gen_case_form_to_contingency(
                              data, <<dimension[2], dimension[1]>>, NoOrder)
             IN  /\ Returned(plain)
                 /\ \A c \in Cells(dimension) :
                       result.value.items[c] = plain.value.items[<<c[2], c[1]>>]

\* Two rows went through axis_order=[1,0] into a (2,3) table, one of them
\* to the cell (1,2).
C9_Witness ==
    /\ DistinctAxesCall
    /\ axis_order.order = <<1, 0>>
    /\ dimension = <<2, 3>>
    /\ data.shape[1] = 2
    /\ RowOf(data, 1) = <<2, 1>>
    /\ Returned(result)
    /\ result.value.items[<<1, 2>>] >= 1

====
